---------------------------- MODULE Spec2Model ----------------------------
(***************************************************************************)
(* The federation boundary of posts: crates/apub/src/objects/post.rs.      *)
(* Page::is_mod_action, Page::verify, Page::extract_community and          *)
(* ApubPost::{delete, to_apub, from_apub} are modelled step by step, one   *)
(* action per await point.  The collaborators that post.rs calls but does  *)
(* not define (ObjectId::dereference, verify_* helpers, the slur filter,   *)
(* fetch_site_data, Post::upsert) are modelled from the specification.     *)
(***************************************************************************)
EXTENDS Integers, Sequences, FiniteSets, TLC

(***************************************************************************)
(* Bounds of the model.                                                    *)
(***************************************************************************)
\* REQUEST_LIMIT of the fetcher: a dereference that misses locally fetches
\* only while request_counter is below it.
RequestLimit == 2
\* Length of the chain of remote objects that reference one another.
MaxChain == 3
\* Longest audience list ("to") of an inbound Page.
MaxAudience == 2
\* Number of from_apub calls that run concurrently in SpecConcurrent.
NumCalls == 2

(***************************************************************************)
(* Option<T>: None is the empty sequence, Some(x) the one-element one.     *)
(***************************************************************************)
None == << >>
Some(x) == << x >>
IsSome(o) == o # << >>
Unwrap(o) == o[1]
Opt(S) == {None} \cup {Some(x) : x \in S}

(***************************************************************************)
(* Network addresses (Url): <<domain, kind, n>>.                           *)
(***************************************************************************)
Domain(u) == u[1]

\* activitystreams::public()
Public == <<"w3", "public", 0>>

PostA == <<"A", "post", 1>>
PostB == <<"B", "post", 1>>
PostIds == {PostA, PostB}

\* Actors and communities already stored locally when the model starts.
Bob  == <<"A", "u", 0>>
Mal  == <<"A", "u", 9>>
Cats == <<"A", "c", 0>>
InitiallyKnown == {Bob, Mal, Cats}

\* Remote objects, not stored locally: <<"B", kind, n>> for n in 1..MaxChain,
\* communities at odd n and persons at even n; object n references object
\* n+1, the last one references nothing.
ChainKind(n) == IF n % 2 = 1 THEN "c" ELSE "u"
ChainObj(n) == <<"B", ChainKind(n), n>>
RemoteObjects == {ChainObj(n) : n \in 1..MaxChain}
Ref(a) == IF a[3] < MaxChain THEN Some(ChainObj(a[3] + 1)) ELSE None

Persons == {Bob, Mal} \cup {a \in RemoteObjects : a[2] = "u"}
Communities == {Cats} \cup {a \in RemoteObjects : a[2] = "c"}

\* CommunityPersonBanView: Mal is banned from Cats.
Banned == {<<Mal, Cats>>}

\* expected_domain arguments: the address the message came from.
ExpectedDomains == {<<"A", "inbox", 0>>, <<"B", "inbox", 0>>}

LinkUrl  == <<"L", "link", 0>>
PageImg  == <<"A", "img", 1>>
SiteImg  == <<"pictrs", "img", 2>>

(***************************************************************************)
(* Text is a sequence of words; the slur pattern matches the word "slur".  *)
(***************************************************************************)
SlurWords == {"slur"}
Titles == { <<"w">>, <<"slur">> }
Bodies == { <<"w">>, <<"w", "slur">> }

\* lemmy_utils::utils::check_slurs: Ok iff no word matches.
check_slurs(text) == \A i \in DOMAIN text : text[i] \notin SlurWords

\* lemmy_utils::utils::remove_slurs: every match becomes the marker.
remove_slurs(text) ==
  [i \in DOMAIN text |-> IF text[i] \in SlurWords THEN "*removed*" ELSE text[i]]

\* lemmy_utils::utils::markdown_to_html
markdown_to_html(text) == <<"<p>">> \o text \o <<"</p>">>

(***************************************************************************)
(* Time: NaiveDateTime is an integer, DateTime<FixedOffset> a UTC instant  *)
(* with an offset.                                                         *)
(***************************************************************************)
\* lemmy_utils::utils::convert_datetime: from_utc(t, FixedOffset::east(0))
convert_datetime(t) == [utc |-> t, off |-> 0]
\* chrono::DateTime::naive_local
naive_local(d) == d.utc + d.off
\* The column default now() of post.published.
NowDefault == 5
WireTimes == {[utc |-> 1, off |-> 0], [utc |-> 1, off |-> 1]}

(***************************************************************************)
(* verify helpers.                                                         *)
(***************************************************************************)
\* lemmy_apub_lib::verify::verify_domains_match
verify_domains_match(a, b) == Domain(a) = Domain(b)

\* crate::activities::verify_is_public
verify_is_public(to) == \E i \in DOMAIN to : to[i] = Public

(***************************************************************************)
(* ObjectId::dereference: local lookup first; on a miss one remote fetch,  *)
(* counted in request_counter, followed by the dereference of what the     *)
(* fetched object references, through the same counter.                    *)
(***************************************************************************)
DerefResult(ok, err, ctr, kn, n) ==
  [ok |-> ok, err |-> err, ctr |-> ctr, known |-> kn, fetched |-> n]

dereference_local(addr, kind, kn) == addr \in kn /\ addr[2] = kind

RECURSIVE dereference(_, _, _, _)
dereference(addr, kind, ctr, kn) ==
  IF dereference_local(addr, kind, kn)
  THEN DerefResult(TRUE, "", ctr, kn, 0)
  ELSE IF ctr >= RequestLimit
  THEN DerefResult(FALSE, "FetchExhausted", ctr, kn, 0)
  ELSE IF addr \notin RemoteObjects
  THEN DerefResult(FALSE, "NotFound", ctr + 1, kn, 1)
  ELSE IF addr[2] # kind
  THEN DerefResult(FALSE, "SchemaMismatch", ctr + 1, kn, 1)
  ELSE IF Ref(addr) = None
  THEN DerefResult(TRUE, "", ctr + 1, kn \cup {addr}, 1)
  ELSE LET r == dereference(Unwrap(Ref(addr)), Unwrap(Ref(addr))[2], ctr + 1, kn)
       IN  IF r.ok
           THEN DerefResult(TRUE, "", r.ctr, r.known \cup {addr}, r.fetched + 1)
           ELSE DerefResult(FALSE, r.err, r.ctr, r.known, r.fetched + 1)

\* crate::activities::verify_person_in_community: dereference the person,
\* then look the ban up.
verify_person_in_community(person, community, ctr, kn) ==
  LET r == dereference(person, "u", ctr, kn)
  IN  IF ~r.ok THEN r
      ELSE IF <<person, community>> \in Banned
      THEN DerefResult(FALSE, "NotCommunityMember", r.ctr, r.known, r.fetched)
      ELSE r


(***************************************************************************)
(* The wire object (struct Page) and the inbound Pages of the model.       *)
(***************************************************************************)
Bool3 == Opt(BOOLEAN)

RECURSIVE SeqsUpTo(_, _)
SeqsUpTo(S, n) ==
  IF n = 0 THEN { << >> }
  ELSE LET shorter == SeqsUpTo(S, n - 1)
       IN  shorter \cup {Append(s, x) : s \in {t \in shorter : Len(t) = n - 1}, x \in S}

\* Audience entries an inbound Page may carry: the stored community, the
\* public marker, and two remote communities: the head of the chain and the
\* last community in it.
LastCommunity == ChainObj(IF MaxChain % 2 = 1 THEN MaxChain ELSE MaxChain - 1)
AudienceEntries == {Cats, Public, ChainObj(1), LastCommunity}
Audiences == SeqsUpTo(AudienceEntries, MaxAudience)

BasePage ==
  [id |-> PostA, attributed_to |-> Bob, to |-> <<Cats, Public>>,
   name |-> <<"w">>, content |-> None, source |-> Some(<<"w">>),
   url |-> None, image |-> None,
   comments_enabled |-> Some(TRUE), sensitive |-> Some(FALSE),
   stickied |-> Some(FALSE),
   published |-> Some([utc |-> 1, off |-> 0]), updated |-> None]

\* Pages that differ from the base in what Page::verify and the dereferences read.
VerifyPages ==
  {[BasePage EXCEPT !.attributed_to = a, !.to = t, !.name = n] :
     a \in Persons, t \in Audiences, n \in Titles}
  \cup {[BasePage EXCEPT !.attributed_to = a, !.stickied = Some(TRUE)] : a \in Persons}

\* Pages that differ from the base in the moderation flags.
FlagPages ==
  {[BasePage EXCEPT !.id = i, !.stickied = s, !.comments_enabled = e] :
     i \in PostIds, s \in Bool3, e \in Bool3}

\* Pages that differ from the base in the content that is stored.
ContentPages ==
  {[BasePage EXCEPT !.source = b, !.url = u, !.image = g, !.updated = w] :
     b \in Opt(Bodies), u \in Opt({LinkUrl}), g \in Opt({PageImg}),
     w \in Opt(WireTimes)}

Pages == VerifyPages \cup FlagPages \cup ContentPages

(***************************************************************************)
(* fetch_site_data: what the metadata source answers for a link, as the    *)
(* state of the remote site: (Option<SiteMetadata>, Option<Url>).          *)
(***************************************************************************)
SiteMeta == [title |-> Some("t"), description |-> Some("d"), html |-> None]
SiteStates == [metadata : Opt({SiteMeta}), thumbnail : Opt({SiteImg})]
SiteDown == [metadata |-> None, thumbnail |-> None]

fetch_site_data(st, url) ==
  IF IsSome(url) THEN <<st.metadata, st.thumbnail>> ELSE <<None, None>>

(***************************************************************************)
(* The post table: rows (struct Post), PostForm, and Post::upsert          *)
(* (insert ... on conflict (ap_id) do update set <the form's Some fields>).*)
(***************************************************************************)
RowsAt(ps, addr) == {r \in ps : r.ap_id = addr}

\* Post::read_from_apub_id
read_from_apub_id(ps, addr) ==
  IF RowsAt(ps, addr) = {} THEN None ELSE Some(CHOOSE r \in RowsAt(ps, addr) : TRUE)

\* A non-null column: the form's value, or else the given one.
OrElse(o, v) == IF IsSome(o) THEN Unwrap(o) ELSE v
\* A nullable column: the form's value, or else the given one.
OrKeep(o, v) == IF IsSome(o) THEN o ELSE v

InsertRow(ps, form) ==
  [id |-> Cardinality(ps) + 1,
   ap_id |-> Unwrap(form.ap_id),
   name |-> form.name,
   url |-> form.url,
   body |-> form.body,
   creator_id |-> form.creator_id,
   community_id |-> form.community_id,
   removed |-> OrElse(form.removed, FALSE),
   locked |-> OrElse(form.locked, FALSE),
   published |-> OrElse(form.published, NowDefault),
   updated |-> form.updated,
   deleted |-> OrElse(form.deleted, FALSE),
   nsfw |-> OrElse(form.nsfw, FALSE),
   stickied |-> OrElse(form.stickied, FALSE),
   embed_title |-> form.embed_title,
   embed_description |-> form.embed_description,
   embed_html |-> form.embed_html,
   thumbnail_url |-> form.thumbnail_url,
   local |-> OrElse(form.local, TRUE)]

UpdateRow(old, form) ==
  [id |-> old.id,
   ap_id |-> Unwrap(form.ap_id),
   name |-> form.name,
   url |-> OrKeep(form.url, old.url),
   body |-> OrKeep(form.body, old.body),
   creator_id |-> form.creator_id,
   community_id |-> form.community_id,
   removed |-> OrElse(form.removed, old.removed),
   locked |-> OrElse(form.locked, old.locked),
   published |-> OrElse(form.published, old.published),
   updated |-> OrKeep(form.updated, old.updated),
   deleted |-> OrElse(form.deleted, old.deleted),
   nsfw |-> OrElse(form.nsfw, old.nsfw),
   stickied |-> OrElse(form.stickied, old.stickied),
   embed_title |-> OrKeep(form.embed_title, old.embed_title),
   embed_description |-> OrKeep(form.embed_description, old.embed_description),
   embed_html |-> OrKeep(form.embed_html, old.embed_html),
   thumbnail_url |-> OrKeep(form.thumbnail_url, old.thumbnail_url),
   local |-> OrElse(form.local, old.local)]

\* Post::upsert
PostUpsert(ps, form) ==
  LET hit == RowsAt(ps, Unwrap(form.ap_id))
  IN  IF hit = {} THEN ps \cup {InsertRow(ps, form)}
      ELSE (ps \ hit) \cup {UpdateRow(r, form) : r \in hit}

\* Post::create: a plain insert.
PostCreate(ps, form) == ps \cup {InsertRow(ps, form)}

\* Post::update_deleted
update_deleted(ps, id, flag) ==
  {IF r.id = id THEN [r EXCEPT !.deleted = flag] ELSE r : r \in ps}

(***************************************************************************)
(* Page::is_mod_action (post.rs 86-97).                                    *)
(***************************************************************************)
is_mod_action(pg, ps) ==
  LET old_post == read_from_apub_id(ps, pg.id)
  IN  IF IsSome(old_post)
      THEN \/ pg.stickied # Some(Unwrap(old_post).stickied)
           \/ pg.comments_enabled # Some(~Unwrap(old_post).locked)
      ELSE FALSE

(***************************************************************************)
(* The form from_apub builds (post.rs 248-281).                            *)
(***************************************************************************)
\* post.rs 248-253: the thumbnail handed to the form.
PictrsThumbnail(pg, fetched) ==
  LET thumbnail_url == IF IsSome(pg.image) THEN pg.image ELSE None
  IN  IF IsSome(pg.url) THEN fetched[2] ELSE thumbnail_url

\* post.rs 249-256: the metadata handed to the form.
MetadataRes(pg, fetched) == IF IsSome(pg.url) THEN fetched[1] ELSE None

\* Mutant of LockedOf: the negation of comments_enabled is forgotten.
LockedNotNegated(pg) == pg.comments_enabled

\* post.rs 269: locked: page.comments_enabled.map(|e| !e)
LockedOf(pg) ==
  IF IsSome(pg.comments_enabled) THEN Some(~Unwrap(pg.comments_enabled)) ELSE None

\* Mutant of BodySlursRemoved: the source is stored as it came.
BodyUnfiltered(pg) == pg.source

\* post.rs 258-261: body_slurs_removed
BodySlursRemoved(pg) ==
  IF IsSome(pg.source) THEN Some(remove_slurs(Unwrap(pg.source))) ELSE None

\* Mutant of DeletedOf: the form resets the deletion flag.
DeletedReset(pg) == Some(FALSE)

\* post.rs 273: deleted: None
DeletedOf(pg) == None

MakePostForm(pg, ap_id, creatorId, communityId, fetched) ==
  LET meta == MetadataRes(pg, fetched)
  IN
  [name |-> pg.name,
   url |-> pg.url,
   body |-> BodySlursRemoved(pg),
   creator_id |-> creatorId,
   community_id |-> communityId,
   removed |-> None,
   locked |-> LockedOf(pg),
   published |-> IF IsSome(pg.published) THEN Some(naive_local(Unwrap(pg.published))) ELSE None,
   updated |-> IF IsSome(pg.updated) THEN Some(naive_local(Unwrap(pg.updated))) ELSE None,
   deleted |-> DeletedOf(pg),
   nsfw |-> pg.sensitive,
   stickied |-> pg.stickied,
   embed_title |-> IF IsSome(meta) THEN Unwrap(meta).title ELSE None,
   embed_description |-> IF IsSome(meta) THEN Unwrap(meta).description ELSE None,
   embed_html |-> IF IsSome(meta) THEN Unwrap(meta).html ELSE None,
   thumbnail_url |-> PictrsThumbnail(pg, fetched),
   ap_id |-> Some(ap_id),
   local |-> Some(FALSE)]

(***************************************************************************)
(* ApubPost::to_apub (post.rs 180-218).  Person::read and Community::read  *)
(* map the row's creator_id and community_id to the actors' addresses.     *)
(***************************************************************************)
\* Mutant of AudienceOf: the public marker is left out.
AudienceNoPublic(post) == <<post.community_id>>

\* post.rs 203: to: vec![community.actor_id.into(), public()]
AudienceOf(post) == <<post.community_id, Public>>

to_apub(post) ==
  [id |-> post.ap_id,
   attributed_to |-> post.creator_id,
   to |-> AudienceOf(post),
   name |-> post.name,
   content |-> IF IsSome(post.body) THEN Some(markdown_to_html(Unwrap(post.body))) ELSE None,
   source |-> post.body,
   url |-> post.url,
   image |-> post.thumbnail_url,
   comments_enabled |-> Some(~post.locked),
   sensitive |-> Some(post.nsfw),
   stickied |-> Some(post.stickied),
   published |-> Some(convert_datetime(post.published)),
   updated |-> IF IsSome(post.updated) THEN Some(convert_datetime(Unwrap(post.updated))) ELSE None]


(***************************************************************************)
(* State.                                                                  *)
(***************************************************************************)
VARIABLES
  posts,   \* the post table: a set of rows
  known,   \* addresses of the persons and communities stored locally
  site,    \* what the metadata source answers at the moment
  calls,   \* the inbound conversions: for each, its arguments, its locals
           \* and its position (pc)
  hist     \* history kept by the scenario specifications (SpecTwice,
           \* SpecConcurrent, SpecLocal, SpecOutbound): what was applied,
           \* how often, and what was stored when it started

vars == <<posts, known, site, calls, hist>>

CallIds == DOMAIN calls
Quiet == \A c \in CallIds : calls[c].pc = "idle"

IdleCall ==
  [pc |-> "idle", kind |-> "", page |-> BasePage, expected_domain |-> PostA,
   request_counter |-> 0, to_idx |-> 1, is_mod |-> FALSE,
   creator |-> None, community |-> None, fetched |-> <<None, None>>,
   result |-> "", counter0 |-> 0, fetches |-> 0, site_calls |-> 0, before |-> {}]

NoHist == [n |-> 0]

Init ==
  /\ posts = {}
  /\ known = InitiallyKnown
  /\ site = SiteDown
  /\ calls = [c \in {1} |-> IdleCall]
  /\ hist = NoHist

\* A call starts: Page::verify followed by from_apub ("receive", the
\* activity handlers' use), or from_apub alone.  ctr is the caller's
\* request_counter.
Begin(c, kind, pg, ed, ctr) ==
  /\ calls' = [calls EXCEPT ![c] =
       [IdleCall EXCEPT !.pc = IF kind = "receive" THEN "v_community" ELSE "f_mod",
                        !.kind = kind, !.page = pg, !.expected_domain = ed,
                        !.request_counter = ctr, !.counter0 = ctr,
                        !.before = posts]]
  /\ UNCHANGED <<posts, known, site, hist>>

Fail(c, err, ctr, n) ==
  calls' = [calls EXCEPT ![c].pc = "done", ![c].result = err,
                         ![c].request_counter = ctr,
                         ![c].fetches = calls[c].fetches + n]

(***************************************************************************)
(* Page::extract_community (post.rs 113-129): one iteration of the loop.   *)
(***************************************************************************)
\* post.rs 104, 245-246: the request_counter handed on to
\* extract_community and verify_person_in_community is the caller's own.
CounterFresh(me) == 0
CounterPassed(me) == me.request_counter

AfterCommunity(pc) == IF pc = "v_community" THEN "v_checks" ELSE "f_member"

\* Mutant of ExtractStep: an entry that does not resolve ends the scan with
\* its error instead of being skipped.
ExtractStepNoSkip(c) ==
  LET me == calls[c] IN
  /\ me.pc \in {"v_community", "f_community"}
  /\ IF me.to_idx > Len(me.page.to)
     THEN /\ Fail(c, "NoCommunityInAudience", me.request_counter, 0)
          /\ UNCHANGED known
     ELSE LET r == dereference(me.page.to[me.to_idx], "c", CounterPassed(me), known)
          IN  /\ known' = r.known
              /\ IF ~r.ok
                 THEN Fail(c, r.err, r.ctr, r.fetched)
                 ELSE calls' = [calls EXCEPT
                        ![c].request_counter = r.ctr,
                        ![c].fetches = me.fetches + r.fetched,
                        ![c].community = Some(me.page.to[me.to_idx]),
                        ![c].pc = AfterCommunity(me.pc)]
  /\ UNCHANGED <<posts, site, hist>>

ExtractStep(c) ==
  LET me == calls[c] IN
  /\ me.pc \in {"v_community", "f_community"}
  /\ IF me.to_idx > Len(me.page.to)
     THEN /\ Fail(c, "NoCommunityInAudience", me.request_counter, 0)
          /\ UNCHANGED known
     ELSE LET r == dereference(me.page.to[me.to_idx], "c", CounterPassed(me), known)
          IN  /\ known' = r.known
              /\ calls' = [calls EXCEPT
                   ![c].request_counter = r.ctr,
                   ![c].fetches = me.fetches + r.fetched,
                   ![c].to_idx = IF r.ok THEN me.to_idx ELSE me.to_idx + 1,
                   ![c].community = IF r.ok THEN Some(me.page.to[me.to_idx]) ELSE None,
                   ![c].pc = IF r.ok THEN AfterCommunity(me.pc) ELSE me.pc]
  /\ UNCHANGED <<posts, site, hist>>

(***************************************************************************)
(* Page::verify after extract_community (post.rs 106-110).                 *)
(***************************************************************************)
\* Mutants of VerifyOutcome: verify without verify_is_public, verify
\* without the attribution-domain check, verify without check_slurs, and
\* verify with the audience check first and the title check last.
VerifyOutcomeNoPublic(pg, r) ==
  IF ~check_slurs(pg.name) THEN "ProhibitedContent"
  ELSE IF ~verify_domains_match(pg.attributed_to, pg.id) THEN "DomainMismatch"
  ELSE IF ~r.ok THEN r.err
  ELSE "ok"

VerifyOutcomeNoDomain(pg, r) ==
  IF ~check_slurs(pg.name) THEN "ProhibitedContent"
  ELSE IF ~r.ok THEN r.err
  ELSE IF ~verify_is_public(pg.to) THEN "NotPublic"
  ELSE "ok"

VerifyOutcomeNoSlurs(pg, r) ==
  IF ~verify_domains_match(pg.attributed_to, pg.id) THEN "DomainMismatch"
  ELSE IF ~r.ok THEN r.err
  ELSE IF ~verify_is_public(pg.to) THEN "NotPublic"
  ELSE "ok"

VerifyOutcomePublicFirst(pg, r) ==
  IF ~verify_is_public(pg.to) THEN "NotPublic"
  ELSE IF ~verify_domains_match(pg.attributed_to, pg.id) THEN "DomainMismatch"
  ELSE IF ~r.ok THEN r.err
  ELSE IF ~check_slurs(pg.name) THEN "ProhibitedContent"
  ELSE "ok"

\* The checks of post.rs 106-109 in program order: the first that fails
\* gives the error.  r is the outcome of verify_person_in_community.
VerifyOutcome(pg, r) ==
  IF ~check_slurs(pg.name) THEN "ProhibitedContent"
  ELSE IF ~verify_domains_match(pg.attributed_to, pg.id) THEN "DomainMismatch"
  ELSE IF ~r.ok THEN r.err
  ELSE IF ~verify_is_public(pg.to) THEN "NotPublic"
  ELSE "ok"

\* Whether the outcome was reached after verify_person_in_community ran.
ReachedMember(pg) ==
  check_slurs(pg.name) /\ verify_domains_match(pg.attributed_to, pg.id)

VerifyRest(c) ==
  LET me == calls[c]
      pg == me.page
      r  == verify_person_in_community(pg.attributed_to, Unwrap(me.community),
                                       me.request_counter, known)
      out == VerifyOutcome(pg, r)
  IN
  /\ me.pc = "v_checks"
  /\ IF ~ReachedMember(pg)
     THEN Fail(c, out, me.request_counter, 0) /\ UNCHANGED known
     ELSE IF out # "ok"
     THEN Fail(c, out, r.ctr, r.fetched) /\ known' = r.known
     ELSE /\ known' = r.known
          /\ calls' = [calls EXCEPT ![c].pc = "f_mod",
                                    ![c].community = None, ![c].to_idx = 1,
                                    ![c].request_counter = r.ctr,
                                    ![c].fetches = me.fetches + r.fetched]
  /\ UNCHANGED <<posts, site, hist>>

(***************************************************************************)
(* ApubPost::from_apub (post.rs 227-284).                                  *)
(***************************************************************************)
\* Mutant of IdAccepted: the address is compared with expected_domain even
\* for a moderator action.
IdAlwaysChecked(pg, ed, mod) == verify_domains_match(pg.id, ed)

\* post.rs 235-239: whether Page::id(expected_domain) lets the address pass.
IdAccepted(pg, ed, mod) == mod \/ verify_domains_match(pg.id, ed)

\* post.rs 235-239: the local read of is_mod_action, then Page::id.
ModCheck(c) ==
  LET me == calls[c]
      mod == is_mod_action(me.page, posts)
  IN
  /\ me.pc = "f_mod"
  /\ IF ~IdAccepted(me.page, me.expected_domain, mod)
     THEN Fail(c, "DomainMismatch", me.request_counter, 0)
     ELSE calls' = [calls EXCEPT ![c].pc = "f_creator", ![c].is_mod = mod]
  /\ UNCHANGED <<posts, known, site, hist>>

\* post.rs 241-244
DerefCreator(c) ==
  LET me == calls[c]
      r == dereference(me.page.attributed_to, "u", me.request_counter, known)
  IN
  /\ me.pc = "f_creator"
  /\ known' = r.known
  /\ IF ~r.ok
     THEN Fail(c, r.err, r.ctr, r.fetched)
     ELSE calls' = [calls EXCEPT ![c].pc = "f_community",
                                 ![c].creator = Some(me.page.attributed_to),
                                 ![c].request_counter = r.ctr,
                                 ![c].fetches = me.fetches + r.fetched]
  /\ UNCHANGED <<posts, site, hist>>

\* post.rs 258-281
FormOf(me) ==
  MakePostForm(me.page, me.page.id, Unwrap(me.creator), Unwrap(me.community), me.fetched)

\* Mutant of Member: the row is written before the membership check.
MemberAfterUpsert(c) ==
  LET me == calls[c]
      r == verify_person_in_community(me.page.attributed_to, Unwrap(me.community),
                                      CounterPassed(me), known)
  IN
  /\ me.pc = "f_member"
  /\ known' = r.known
  /\ posts' = PostUpsert(posts, FormOf(me))
  /\ IF ~r.ok
     THEN Fail(c, r.err, r.ctr, r.fetched)
     ELSE calls' = [calls EXCEPT ![c].pc = "done", ![c].result = "ok",
                                 ![c].request_counter = r.ctr,
                                 ![c].fetches = me.fetches + r.fetched]
  /\ UNCHANGED <<site, hist>>

\* post.rs 246
Member(c) ==
  LET me == calls[c]
      r == verify_person_in_community(me.page.attributed_to, Unwrap(me.community),
                                      CounterPassed(me), known)
  IN
  /\ me.pc = "f_member"
  /\ known' = r.known
  /\ IF ~r.ok
     THEN Fail(c, r.err, r.ctr, r.fetched)
     ELSE calls' = [calls EXCEPT
            ![c].pc = IF IsSome(me.page.url) THEN "f_site" ELSE "f_upsert",
            ![c].request_counter = r.ctr,
            ![c].fetches = me.fetches + r.fetched]
  /\ UNCHANGED <<posts, site, hist>>

\* Mutant of FetchSiteData: a fetch that returns no metadata fails the call.
FetchSiteDataFatal(c) ==
  LET me == calls[c]
      res == fetch_site_data(site, me.page.url)
  IN
  /\ me.pc = "f_site"
  /\ IF res[1] = None
     THEN calls' = [calls EXCEPT ![c].pc = "done",
                                 ![c].result = "EnrichmentUnavailable",
                                 ![c].site_calls = me.site_calls + 1]
     ELSE calls' = [calls EXCEPT ![c].pc = "f_upsert",
                                 ![c].fetched = res,
                                 ![c].site_calls = me.site_calls + 1]
  /\ UNCHANGED <<posts, known, site, hist>>

\* post.rs 249-250
FetchSiteData(c) ==
  LET me == calls[c] IN
  /\ me.pc = "f_site"
  /\ calls' = [calls EXCEPT ![c].pc = "f_upsert",
                            ![c].fetched = fetch_site_data(site, me.page.url),
                            ![c].site_calls = me.site_calls + 1]
  /\ UNCHANGED <<posts, known, site, hist>>


\* Mutant of Persist: a plain insert (Post::create) instead of the upsert.
PersistCreate(ps, form) == PostCreate(ps, form)

\* post.rs 282: the statement from_apub runs on the post table.
Persist(ps, form) == PostUpsert(ps, form)

\* post.rs 282-283
UpsertBody(c) ==
  LET me == calls[c] IN
  /\ me.pc = "f_upsert"
  /\ posts' = Persist(posts, FormOf(me))
  /\ calls' = [calls EXCEPT ![c].pc = "done", ![c].result = "ok"]
  /\ UNCHANGED <<known, site>>

Upsert(c) == UpsertBody(c) /\ UNCHANGED hist

\* post.rs 282: the pool or the statement fails.
UpsertFails(c) ==
  /\ calls[c].pc = "f_upsert"
  /\ Fail(c, "PersistenceFailure", calls[c].request_counter, 0)
  /\ UNCHANGED <<posts, known, site, hist>>

\* The caller takes the result; the slot is free for the next call.
Return(c) ==
  /\ calls[c].pc = "done"
  /\ calls' = [calls EXCEPT ![c] = IdleCall]
  /\ UNCHANGED <<posts, known, site, hist>>

(***************************************************************************)
(* ApubPost::delete (post.rs 171-177) and the environment.                 *)
(***************************************************************************)
Delete ==
  /\ Quiet
  /\ \E p \in posts :
       /\ ~p.deleted
       /\ posts' = update_deleted(posts, p.id, TRUE)
  /\ UNCHANGED <<known, site, calls, hist>>

SiteChanges ==
  /\ Quiet
  /\ \E st \in SiteStates \ {site} : site' = st
  /\ UNCHANGED <<posts, known, calls, hist>>

(***************************************************************************)
(* Spec: from_apub, one call at a time, on Pages that differ in the        *)
(* moderation flags and the address.                                       *)
(***************************************************************************)
StartFromApub ==
  /\ Quiet
  /\ \E pg \in FlagPages, ed \in ExpectedDomains : Begin(1, "from_apub", pg, ed, 0)

Next ==
  \/ StartFromApub
  \/ \E c \in CallIds : ModCheck(c)
  \/ \E c \in CallIds : DerefCreator(c)
  \/ \E c \in CallIds : ExtractStep(c)
  \/ \E c \in CallIds : Member(c)
  \/ \E c \in CallIds : Upsert(c)
  \/ \E c \in CallIds : UpsertFails(c)
  \/ \E c \in CallIds : Return(c)
  \/ Delete

Spec == Init /\ [][Next]_vars

(***************************************************************************)
(* SpecInbound: the activity handlers' use, Page::verify and then          *)
(* from_apub, and from_apub alone, on Pages that differ in what the checks *)
(* and the dereferences read.                                              *)
(***************************************************************************)
CounterStarts == {0, RequestLimit - 1}

StartInbound ==
  /\ Quiet
  /\ \E pg \in VerifyPages, kind \in {"receive", "from_apub"},
        ed \in ExpectedDomains, ctr \in CounterStarts :
       Begin(1, kind, pg, ed, ctr)

NextInbound ==
  \/ StartInbound
  \/ \E c \in CallIds : ExtractStep(c)
  \/ \E c \in CallIds : VerifyRest(c)
  \/ \E c \in CallIds : ModCheck(c)
  \/ \E c \in CallIds : DerefCreator(c)
  \/ \E c \in CallIds : Member(c)
  \/ \E c \in CallIds : Upsert(c)
  \/ \E c \in CallIds : UpsertFails(c)
  \/ \E c \in CallIds : Return(c)

SpecInbound == Init /\ [][NextInbound]_vars

(***************************************************************************)
(* SpecContent: from_apub, one call at a time, on Pages that differ in the *)
(* content that is stored, while the metadata source changes its answers.  *)
(***************************************************************************)
StartContent ==
  /\ Quiet
  /\ \E pg \in ContentPages : Begin(1, "from_apub", pg, PostA, 0)

NextContent ==
  \/ StartContent
  \/ \E c \in CallIds : ModCheck(c)
  \/ \E c \in CallIds : DerefCreator(c)
  \/ \E c \in CallIds : ExtractStep(c)
  \/ \E c \in CallIds : Member(c)
  \/ \E c \in CallIds : FetchSiteData(c)
  \/ \E c \in CallIds : Upsert(c)
  \/ \E c \in CallIds : UpsertFails(c)
  \/ \E c \in CallIds : Return(c)
  \/ SiteChanges

SpecContent == Init /\ [][NextContent]_vars

(***************************************************************************)
(* SpecTwice: from_apub applied to a Page, and then again to the same      *)
(* Page, on a table that is empty or holds a row an earlier from_apub      *)
(* left, while the metadata source may change its answers in between.      *)
(***************************************************************************)
SeedPages ==
  {[BasePage EXCEPT !.stickied = Some(s), !.comments_enabled = Some(e)] :
     s \in BOOLEAN, e \in BOOLEAN}
SeedRows ==
  {InsertRow({}, MakePostForm(pg, pg.id, Bob, Cats, <<None, None>>)) : pg \in SeedPages}
SeedStores == { {} } \cup {{r} : r \in SeedRows}

TwicePages == {pg \in FlagPages : pg.id = PostA} \cup ContentPages

InitTwice ==
  /\ posts \in SeedStores
  /\ known = InitiallyKnown
  /\ site \in SiteStates
  /\ calls = [c \in {1} |-> IdleCall]
  /\ hist = [n |-> 0, page |-> None, row |-> None, fetched |-> <<None, None>>, same |-> TRUE]

StartFirst ==
  /\ Quiet
  /\ hist.n = 0
  /\ \E pg \in TwicePages, ed \in ExpectedDomains : Begin(1, "from_apub", pg, ed, 0)

\* The first successful application: its Page, the row it left and what the
\* metadata source answered are recorded.
UpsertFirst(c) ==
  /\ hist.n = 0
  /\ UpsertBody(c)
  /\ hist' = [n |-> 1, page |-> Some(calls[c].page),
              row |-> read_from_apub_id(posts', calls[c].page.id),
              fetched |-> calls[c].fetched, same |-> TRUE]

StartAgain ==
  /\ Quiet
  /\ hist.n >= 1
  /\ \E ed \in ExpectedDomains : Begin(1, "from_apub", Unwrap(hist.page), ed, 0)

UpsertAgain(c) ==
  /\ hist.n >= 1
  /\ UpsertBody(c)
  /\ hist' = [hist EXCEPT !.n = 2,
                          !.same = hist.same /\ calls[c].fetched = hist.fetched]

SiteChangesTwice ==
  /\ Quiet
  /\ \E st \in SiteStates \ {site} : site' = st
  /\ UNCHANGED <<posts, known, calls, hist>>

NextTwice ==
  \/ StartFirst
  \/ StartAgain
  \/ \E c \in CallIds : ModCheck(c)
  \/ \E c \in CallIds : DerefCreator(c)
  \/ \E c \in CallIds : ExtractStep(c)
  \/ \E c \in CallIds : Member(c)
  \/ \E c \in CallIds : FetchSiteData(c)
  \/ \E c \in CallIds : UpsertFirst(c)
  \/ \E c \in CallIds : UpsertAgain(c)
  \/ \E c \in CallIds : UpsertFails(c)
  \/ \E c \in CallIds : Return(c)
  \/ SiteChangesTwice

SpecTwice == InitTwice /\ [][NextTwice]_vars

(***************************************************************************)
(* SpecRoundTrip: a stored post is written to the wire with to_apub and    *)
(* the Page is handed to from_apub with the post's own address as          *)
(* expected_domain.                                                        *)
(***************************************************************************)
\* Rows the table can hold: a body is stored with its slurs removed, and
\* the creator and the community of a stored post are stored themselves.
StoredBodies == {None, Some(<<"w">>), Some(<<"w", "*removed*">>)}
StoredEnrichment ==
  {[title |-> None, description |-> None, html |-> None, thumbnail |-> None],
   [title |-> SiteMeta.title, description |-> SiteMeta.description,
    html |-> SiteMeta.html, thumbnail |-> Some(SiteImg)]}

StoredPosts ==
  {[id |-> 1, ap_id |-> PostA, name |-> <<"w">>, url |-> u, body |-> b,
    creator_id |-> cr, community_id |-> Cats,
    removed |-> rm, locked |-> lk, published |-> 1, updated |-> up,
    deleted |-> dl, nsfw |-> ns, stickied |-> st,
    embed_title |-> en.title, embed_description |-> en.description,
    embed_html |-> en.html, thumbnail_url |-> en.thumbnail,
    local |-> lo] :
     u \in Opt({LinkUrl}), b \in StoredBodies, cr \in {Bob, Mal},
     rm \in BOOLEAN, lk \in BOOLEAN, up \in Opt({2}), dl \in BOOLEAN,
     ns \in BOOLEAN, st \in BOOLEAN, en \in StoredEnrichment, lo \in BOOLEAN}

InitRoundTrip ==
  /\ posts \in {{p} : p \in StoredPosts}
  /\ known = InitiallyKnown
  /\ site \in {SiteDown, [metadata |-> Some(SiteMeta), thumbnail |-> Some(SiteImg)]}
  /\ calls = [c \in {1} |-> IdleCall]
  /\ hist = NoHist

\* The budget the caller hands in: fresh, or already spent.
RoundTripCounters == {0, RequestLimit}

StartRoundTrip ==
  /\ Quiet
  /\ \E p \in posts, ctr \in RoundTripCounters :
       Begin(1, "from_apub", to_apub(p), p.ap_id, ctr)

NextRoundTrip ==
  \/ StartRoundTrip
  \/ \E c \in CallIds : ModCheck(c)
  \/ \E c \in CallIds : DerefCreator(c)
  \/ \E c \in CallIds : ExtractStep(c)
  \/ \E c \in CallIds : Member(c)
  \/ \E c \in CallIds : FetchSiteData(c)
  \/ \E c \in CallIds : Upsert(c)
  \/ \E c \in CallIds : UpsertFails(c)
  \/ \E c \in CallIds : Return(c)

SpecRoundTrip == InitRoundTrip /\ [][NextRoundTrip]_vars

(***************************************************************************)
(* SpecConcurrent: NumCalls from_apub calls for the same address, run      *)
(* interleaved; each call is suspended before the local read of            *)
(* is_mod_action, before each dereference and before the upsert.           *)
(***************************************************************************)
ConcPages == {pg \in FlagPages : pg.id = PostA /\ pg.comments_enabled = Some(TRUE)}

InitConcurrent ==
  /\ posts = {}
  /\ known = InitiallyKnown
  /\ site = SiteDown
  /\ calls = [c \in 1..NumCalls |-> IdleCall]
  /\ hist = [n |-> 0, form |-> None]

\* A call starts while the others are anywhere in theirs.
StartConcurrent(c) ==
  /\ calls[c].pc = "idle"
  /\ \E pg \in ConcPages :
       calls' = [calls EXCEPT ![c] =
         [IdleCall EXCEPT !.pc = "f_mod", !.kind = "from_apub", !.page = pg]]
  /\ UNCHANGED <<posts, known, site, hist>>

\* The upsert, with the form it wrote recorded as the last one written.
UpsertConcurrent(c) ==
  /\ UpsertBody(c)
  /\ hist' = [n |-> IF hist.n < NumCalls THEN hist.n + 1 ELSE hist.n,
              form |-> Some(FormOf(calls[c]))]

NextConcurrent ==
  \/ \E c \in CallIds : StartConcurrent(c)
  \/ \E c \in CallIds : ModCheck(c)
  \/ \E c \in CallIds : DerefCreator(c)
  \/ \E c \in CallIds : ExtractStep(c)
  \/ \E c \in CallIds : Member(c)
  \/ \E c \in CallIds : UpsertConcurrent(c)
  \/ \E c \in CallIds : UpsertFails(c)
  \/ \E c \in CallIds : Return(c)

SpecConcurrent == InitConcurrent /\ [][NextConcurrent]_vars

(***************************************************************************)
(* SpecLocal: from_apub, one call at a time, on Pages that differ in the   *)
(* audience, the author and the moderation flags, with the addresses       *)
(* stored locally when the call starts recorded.                           *)
(***************************************************************************)
LocalPages ==
  {[BasePage EXCEPT !.to = t, !.attributed_to = a, !.stickied = s,
                    !.comments_enabled = e] :
     t \in Audiences, a \in {Bob, Mal}, s \in Bool3, e \in Bool3}

InitLocal ==
  /\ posts = {}
  /\ known = InitiallyKnown
  /\ site = SiteDown
  /\ calls = [c \in {1} |-> IdleCall]
  /\ hist = [known0 |-> InitiallyKnown]

StartLocal ==
  /\ Quiet
  /\ \E pg \in LocalPages, ctr \in CounterStarts :
       calls' = [calls EXCEPT ![1] =
         [IdleCall EXCEPT !.pc = "f_mod", !.kind = "from_apub", !.page = pg,
                          !.request_counter = ctr, !.counter0 = ctr,
                          !.before = posts]]
  /\ hist' = [known0 |-> known]
  /\ UNCHANGED <<posts, known, site>>

NextLocal ==
  \/ StartLocal
  \/ \E c \in CallIds : ModCheck(c)
  \/ \E c \in CallIds : DerefCreator(c)
  \/ \E c \in CallIds : ExtractStep(c)
  \/ \E c \in CallIds : Member(c)
  \/ \E c \in CallIds : Upsert(c)
  \/ \E c \in CallIds : UpsertFails(c)
  \/ \E c \in CallIds : Return(c)

SpecLocal == InitLocal /\ [][NextLocal]_vars

(***************************************************************************)
(* SpecOutbound: to_apub of a stored post; the Page it made is then        *)
(* received back (Page::verify, then from_apub).                           *)
(***************************************************************************)
InitOutbound ==
  /\ posts \in {{p} : p \in StoredPosts}
  /\ known = InitiallyKnown
  /\ site = SiteDown
  /\ calls = [c \in {1} |-> IdleCall]
  /\ hist = [n |-> 0, post |-> None, page |-> None]

\* post.rs 180-218: to_apub reads the post, its creator and its community,
\* and returns the Page; nothing else is touched.
ToApub ==
  /\ Quiet
  /\ \E p \in posts :
       /\ hist.post # Some(p)
       /\ hist' = [n |-> 1, post |-> Some(p), page |-> Some(to_apub(p))]
  /\ UNCHANGED <<posts, known, site, calls>>

StartReceiveOwn ==
  /\ Quiet
  /\ hist.n = 1
  /\ \E ctr \in RoundTripCounters :
       Begin(1, "receive", Unwrap(hist.page), Unwrap(hist.page).id, ctr)

NextOutbound ==
  \/ ToApub
  \/ StartReceiveOwn
  \/ \E c \in CallIds : ExtractStep(c)
  \/ \E c \in CallIds : VerifyRest(c)
  \/ \E c \in CallIds : ModCheck(c)
  \/ \E c \in CallIds : DerefCreator(c)
  \/ \E c \in CallIds : Member(c)
  \/ \E c \in CallIds : FetchSiteData(c)
  \/ \E c \in CallIds : Upsert(c)
  \/ \E c \in CallIds : UpsertFails(c)
  \/ \E c \in CallIds : Return(c)

SpecOutbound == InitOutbound /\ [][NextOutbound]_vars

(***************************************************************************)
(* SpecModAction: from_apub, one call at a time, on Pages for one address  *)
(* that differ in the stickied flag and in the content, received from the  *)
(* post's own instance or from another one.                                *)
(***************************************************************************)
ModPages ==
  {[BasePage EXCEPT !.stickied = Some(st), !.name = n, !.source = b,
                    !.sensitive = Some(ns)] :
     st \in BOOLEAN, n \in Titles, b \in Opt({<<"w">>}), ns \in BOOLEAN}

StartModAction ==
  /\ Quiet
  /\ \E pg \in ModPages, ed \in ExpectedDomains : Begin(1, "from_apub", pg, ed, 0)

NextModAction ==
  \/ StartModAction
  \/ \E c \in CallIds : ModCheck(c)
  \/ \E c \in CallIds : DerefCreator(c)
  \/ \E c \in CallIds : ExtractStep(c)
  \/ \E c \in CallIds : Member(c)
  \/ \E c \in CallIds : Upsert(c)
  \/ \E c \in CallIds : UpsertFails(c)
  \/ \E c \in CallIds : Return(c)

SpecModAction == Init /\ [][NextModAction]_vars

(***************************************************************************)
(* SpecRace: NumCalls from_apub calls for the same address, run            *)
(* interleaved, each received from the post's own instance or from         *)
(* another one, on Pages that carry the stickied flag.                     *)
(***************************************************************************)
RacePages == {pg \in ConcPages : IsSome(pg.stickied)}

StartRace(c) ==
  /\ calls[c].pc = "idle"
  /\ \E pg \in RacePages, ed \in ExpectedDomains :
       calls' = [calls EXCEPT ![c] =
         [IdleCall EXCEPT !.pc = "f_mod", !.kind = "from_apub", !.page = pg,
                          !.expected_domain = ed]]
  /\ UNCHANGED <<posts, known, site, hist>>

NextRace ==
  \/ \E c \in CallIds : StartRace(c)
  \/ \E c \in CallIds : ModCheck(c)
  \/ \E c \in CallIds : DerefCreator(c)
  \/ \E c \in CallIds : ExtractStep(c)
  \/ \E c \in CallIds : Member(c)
  \/ \E c \in CallIds : Upsert(c)
  \/ \E c \in CallIds : UpsertFails(c)
  \/ \E c \in CallIds : Return(c)

SpecRace == InitConcurrent /\ [][NextRace]_vars

(***************************************************************************)
(* SpecDeleted: ApubPost::delete and from_apub, one call at a time, on a   *)
(* table that holds a post, removed by a moderator or not.                 *)
(***************************************************************************)
RemovableRows ==
  {p \in StoredPosts :
     /\ p.url = None /\ p.body = Some(<<"w">>) /\ p.creator_id = Bob
     /\ p.updated = None /\ p.thumbnail_url = None
     /\ ~p.locked /\ ~p.nsfw /\ ~p.stickied /\ ~p.local /\ ~p.deleted}

InitDeleted ==
  /\ posts \in {{p} : p \in RemovableRows}
  /\ known = InitiallyKnown
  /\ site = SiteDown
  /\ calls = [c \in {1} |-> IdleCall]
  /\ hist = NoHist

SpecDeleted == InitDeleted /\ [][Next]_vars

(***************************************************************************)
(* Properties of SpecInbound.                                              *)
(***************************************************************************)
InVerify(me) == me.pc \in {"v_community", "v_checks"}
InFromApub(me) == me.pc \in {"f_mod", "f_creator", "f_community", "f_member", "f_site", "f_upsert"}
Done(me) == me.pc = "done"
Receive(me) == me.kind = "receive"
NonPublic(me) == ~verify_is_public(me.page.to)
\* The row stored for the call's Page.
StoredRow(me) == Unwrap(read_from_apub_id(posts, me.page.id))

\* Every check of verify other than the audience check passed: a community
\* resolved, the title is clean, the attribution's domain is the Page's and
\* the author was dereferenced and is not banned.
OtherChecksPassed(me) ==
  /\ IsSome(me.community)
  /\ check_slurs(me.page.name)
  /\ verify_domains_match(me.page.attributed_to, me.page.id)
  /\ me.page.attributed_to \in known
  /\ <<me.page.attributed_to, Unwrap(me.community)>> \notin Banned

AttributionMismatch(me) == ~verify_domains_match(me.page.attributed_to, me.page.id)

C3_BudgetBound ==
  /\ \A c \in CallIds :
       /\ calls[c].fetches <= RequestLimit - calls[c].counter0
       /\ calls[c].request_counter = calls[c].counter0 + calls[c].fetches
       /\ calls[c].result = "FetchExhausted" => calls[c].request_counter = RequestLimit
  /\ \A a \in AudienceEntries \cup Persons :
       LET r == dereference(a, a[2], RequestLimit, known)
       IN  r.ok \/ (r.err = "FetchExhausted" /\ r.fetched = 0 /\ r.known = known)

C3_Witness ==
  \E c \in CallIds :
    /\ Done(calls[c])
    /\ calls[c].result = "FetchExhausted"
    /\ calls[c].fetches > 0
    /\ calls[c].fetches = RequestLimit - calls[c].counter0

\* C6: whenever from_apub returns an error the post table is what it was
\* before the call, and the table is untouched until the last step: the
\* upsert runs only after every fallible step has succeeded.
C6_NoPartialPersistence ==
  \A c \in CallIds :
    /\ (InVerify(calls[c]) \/ InFromApub(calls[c])) => posts = calls[c].before
    /\ (Done(calls[c]) /\ calls[c].result # "ok") => posts = calls[c].before

C6_Witness ==
  \E c \in CallIds :
    /\ Done(calls[c])
    /\ calls[c].kind = "from_apub"
    /\ calls[c].result = "NotCommunityMember"
    /\ posts # {}

TitleHasSlur(me) == ~check_slurs(me.page.name)

DerefErrors == {"FetchExhausted", "NotFound", "SchemaMismatch"}

VerifyOrderResult ==
  \A c \in CallIds :
    LET me == calls[c]
        comm == IsSome(me.community)
        slur == TitleHasSlur(me)
        mism == AttributionMismatch(me)
        author == me.page.attributed_to
    IN  (Receive(me) /\ Done(me))
          => /\ (me.result = "NoCommunityInAudience") => ~comm
             /\ (me.result = "ProhibitedContent") <=> (comm /\ slur)
             /\ (comm /\ ~slur /\ mism) => me.result = "DomainMismatch"
             /\ (comm /\ ~slur /\ ~mism /\ author \notin known)
                  => me.result \in DerefErrors
             /\ (comm /\ ~slur /\ ~mism /\ author \in known
                   /\ <<author, Unwrap(me.community)>> \in Banned)
                  => me.result = "NotCommunityMember"
             /\ (me.result = "NotPublic") <=> (OtherChecksPassed(me) /\ NonPublic(me))

\* A failing check ends the call at once: the step that finds no community,
\* a slur in the title or another attribution domain dereferences nothing,
\* leaves the request counter alone and writes nothing.
VerifyShortCircuit ==
  \A c \in CallIds :
    LET me == calls[c] IN
    (calls'[c] # me
       /\ \/ me.pc = "v_community" /\ me.to_idx > Len(me.page.to)
          \/ me.pc = "v_checks" /\ (TitleHasSlur(me) \/ AttributionMismatch(me)))
      => /\ calls'[c].pc = "done"
         /\ calls'[c].result # "ok"
         /\ calls'[c].request_counter = me.request_counter
         /\ calls'[c].fetches = me.fetches
         /\ known' = known
         /\ posts' = posts

PastModCheck(me) == me.pc \in {"f_creator", "f_community", "f_member", "f_site", "f_upsert"}
AddressMismatch(me) == ~verify_domains_match(me.page.id, me.expected_domain)

\* C7: when the Page is not a moderator action, from_apub gets past the
\* address check only if the Page's id matches expected_domain, and fails
\* otherwise with DomainMismatch before any dereference or upsert; when the
\* Page is a moderator action its id is not compared with expected_domain.
C7_AddressDomainCheck ==
  \A c \in CallIds :
    LET me == calls[c]
        mod == is_mod_action(me.page, me.before)
    IN  /\ (PastModCheck(me) \/ (Done(me) /\ me.result # "DomainMismatch"))
             => /\ me.is_mod = mod
                /\ mod \/ ~AddressMismatch(me)
        /\ (Done(me) /\ me.result = "DomainMismatch")
             => /\ ~mod /\ AddressMismatch(me)
                /\ me.fetches = 0 /\ me.request_counter = me.counter0
                /\ me.creator = None /\ me.community = None
                /\ posts = me.before

C7_Witness ==
  \E c \in CallIds :
    /\ Done(calls[c]) /\ calls[c].result = "ok"
    /\ calls[c].is_mod
    /\ AddressMismatch(calls[c])

\* Whether an inbound flag really differs from the stored value: an omitted
\* flag carries no value (the upsert leaves the stored one), so it does not.
FlagDiffers(flag, stored) == IsSome(flag) /\ Unwrap(flag) # stored

\* C8 as stated: is_mod_action is true exactly when a local copy of the
\* Page's id exists and the inbound stickied differs from the stored
\* stickied or the inbound comments_enabled differs from NOT locked, an
\* omitted flag counting as differing only if its value really differs.
C8_ModActionIffFlagsDiffer ==
  \A c \in CallIds :
    PastModCheck(calls[c]) =>
      LET old_post == read_from_apub_id(posts, calls[c].page.id)
      IN  calls[c].is_mod
            <=> /\ IsSome(old_post)
                /\ \/ FlagDiffers(calls[c].page.stickied, Unwrap(old_post).stickied)
                   \/ FlagDiffers(calls[c].page.comments_enabled, ~Unwrap(old_post).locked)

(***************************************************************************)
(* Properties of SpecContent.                                              *)
(***************************************************************************)

\* C10 as stated: when an inbound Page carries both a link url and an
\* explicit image, the thumbnail_url persisted by from_apub is the Page's
\* image, whatever the metadata fetch returns.
C10_ExplicitThumbnailWins ==
  \A c \in CallIds :
    (Done(calls[c]) /\ calls[c].result = "ok"
       /\ IsSome(calls[c].page.url) /\ IsSome(calls[c].page.image))
      => StoredRow(calls[c]).thumbnail_url = calls[c].page.image

\* The embed fields of a row, and the row the call found stored.
EmbedFields == {"embed_title", "embed_description", "embed_html"}
RowBefore(me) == read_from_apub_id(me.before, me.page.id)
FetchFailed(me) == IsSome(me.page.url) /\ me.site_calls > 0 /\ me.fetched[1] = None

\* C11 as stated: a failure of the metadata fetch never makes from_apub
\* fail, and the post is persisted with embed_title, embed_description and
\* embed_html empty; the metadata fetch is invoked only when the Page
\* carries a link url.
C11_FetchFailureLeavesEmbedEmpty ==
  \A c \in CallIds :
    LET me == calls[c] IN
    /\ me.site_calls > 0 => IsSome(me.page.url)
    /\ (Done(me) /\ FetchFailed(me)) => me.result \in {"ok", "PersistenceFailure"}
    /\ (Done(me) /\ me.result = "ok" /\ FetchFailed(me))
         => \A f \in EmbedFields : StoredRow(me)[f] = None

\* C11 as amended: the metadata fetch is invoked at most once, and only
\* when the Page carries a link url; its failure never makes from_apub
\* fail; the form then carries no embed_title, embed_description and
\* embed_html, so that a row the call inserts has them empty and a row the
\* call updates keeps the embed fields it had.
C11_EnrichmentNonFatal ==
  \A c \in CallIds :
    LET me == calls[c] IN
    /\ me.site_calls <= 1
    /\ me.site_calls > 0 => IsSome(me.page.url)
    /\ (me.pc = "f_upsert" /\ IsSome(me.page.url)) => me.site_calls = 1
    /\ (Done(me) /\ FetchFailed(me)) => me.result \in {"ok", "PersistenceFailure"}
    /\ (Done(me) /\ me.result = "ok" /\ FetchFailed(me))
         => /\ \A f \in EmbedFields : FormOf(me)[f] = None
            /\ \A f \in EmbedFields :
                 StoredRow(me)[f] =
                   IF IsSome(RowBefore(me)) THEN Unwrap(RowBefore(me))[f] ELSE None

C11_Witness ==
  \E c \in CallIds :
    /\ Done(calls[c]) /\ calls[c].result = "ok"
    /\ FetchFailed(calls[c])
    /\ calls[c].before = {}
    /\ StoredRow(calls[c]).embed_title = None
    /\ StoredRow(calls[c]).url = Some(LinkUrl)

\* The text is the source with every match of the pattern replaced by the
\* redaction marker, and nothing else changed.
Redacted(text, source) ==
  /\ Len(text) = Len(source)
  /\ \A i \in DOMAIN source :
       text[i] = IF source[i] \in SlurWords THEN "*removed*" ELSE source[i]

BodyHasSlur(me) == IsSome(me.page.source) /\ ~check_slurs(Unwrap(me.page.source))

\* C13 as stated: prohibited terms in the source body never make from_apub
\* fail; the body is persisted with every match of the slur pattern
\* replaced by the redaction marker, so no stored body matches the pattern;
\* and a Page without a source block is stored with no body.
C13_BodyRedactedOrAbsent ==
  /\ \A r \in posts : IsSome(r.body) => check_slurs(Unwrap(r.body))
  /\ \A c \in CallIds :
       LET me == calls[c] IN
       /\ (Done(me) /\ BodyHasSlur(me)) => me.result \in {"ok", "PersistenceFailure"}
       /\ (Done(me) /\ me.result = "ok")
            => IF IsSome(me.page.source)
               THEN /\ IsSome(StoredRow(me).body)
                    /\ Redacted(Unwrap(StoredRow(me).body), Unwrap(me.page.source))
               ELSE StoredRow(me).body = None

\* C13 as amended: prohibited terms in the source body never make from_apub
\* fail; a Page with a source block is stored with the source as its body,
\* every match of the slur pattern replaced by the redaction marker, so no
\* body stored by from_apub matches the pattern; a Page without a source
\* block writes no body: a row the call inserts has none, and a row the call
\* updates keeps the body it had.
C13_BodyRedaction ==
  /\ \A r \in posts : IsSome(r.body) => check_slurs(Unwrap(r.body))
  /\ \A c \in CallIds :
       LET me == calls[c] IN
       /\ (Done(me) /\ BodyHasSlur(me)) => me.result \in {"ok", "PersistenceFailure"}
       /\ (Done(me) /\ me.result = "ok")
            => IF IsSome(me.page.source)
               THEN /\ IsSome(StoredRow(me).body)
                    /\ Redacted(Unwrap(StoredRow(me).body), Unwrap(me.page.source))
               ELSE StoredRow(me).body =
                      IF IsSome(RowBefore(me)) THEN Unwrap(RowBefore(me)).body ELSE None

C13_Witness ==
  \E c \in CallIds :
    /\ Done(calls[c]) /\ calls[c].result = "ok"
    /\ BodyHasSlur(calls[c])
    /\ StoredRow(calls[c]).body = Some(<<"w", "*removed*">>)

(***************************************************************************)
(* Properties of SpecTwice.                                                *)
(***************************************************************************)
\* The fields of a row that fetch_site_data fills.
EnrichedFields == {"embed_title", "embed_description", "embed_html", "thumbnail_url"}
SameOutsideEnrichment(r1, r2) ==
  \A f \in (DOMAIN r1) \ EnrichedFields : r1[f] = r2[f]

\* C4 as stated: after from_apub was applied twice in sequence to the
\* identical Page there is exactly one row for its address, and it equals
\* the row the first application left.
C4_SecondCallChangesNothing ==
  hist.n = 2 => RowsAt(posts, Unwrap(hist.page).id) = {Unwrap(hist.row)}

\* C4 as amended: after from_apub was applied twice in sequence to the
\* identical Page there is exactly one row for its address; it equals the
\* row the first application left on every field that fetch_site_data does
\* not fill, and on those too when the metadata source answered both calls
\* alike.
C4_IdempotentUpsert ==
  hist.n = 2 =>
    LET rows == RowsAt(posts, Unwrap(hist.page).id)
    IN  /\ Cardinality(rows) = 1
        /\ \A r \in rows :
             /\ SameOutsideEnrichment(r, Unwrap(hist.row))
             /\ r.id = Unwrap(hist.row).id
             /\ hist.same => r = Unwrap(hist.row)

C4_Witness ==
  /\ hist.n = 2
  /\ hist.same
  /\ IsSome(Unwrap(hist.page).url)
  /\ IsSome(Unwrap(hist.row).embed_title)
  /\ \E c \in CallIds : Done(calls[c]) /\ calls[c].result = "ok"

(***************************************************************************)
(* Properties of SpecRoundTrip.                                            *)
(***************************************************************************)
\* The stored post the call's Page was made from.
PostBefore(me) == CHOOSE p \in me.before : TRUE

\* C5: for any stored post P (any values of locked, stickied, nsfw,
\* removed, deleted, local, body, url and the timestamps),
\* the post that from_apub(to_apub(P), address of P, budget) yields is equal
\* to P on every field that fetch_site_data does not fill.
C5_RoundTripEqual ==
  \A c \in CallIds :
    (Done(calls[c]) /\ calls[c].result = "ok")
      => SameOutsideEnrichment(StoredRow(calls[c]), PostBefore(calls[c]))

(***************************************************************************)
(* Properties of SpecConcurrent.                                           *)
(***************************************************************************)
\* Columns for which the form carries an Option of the column's value, and
\* columns that are nullable themselves.
OptionalInForm == {"removed", "locked", "published", "deleted", "nsfw", "stickied", "local"}
NullableColumns ==
  {"url", "body", "updated", "embed_title", "embed_description", "embed_html",
   "thumbnail_url"}

\* The row holds every value the form writes.
RowHoldsForm(r, form) ==
  /\ r.ap_id = Unwrap(form.ap_id)
  /\ r.name = form.name
  /\ r.creator_id = form.creator_id
  /\ r.community_id = form.community_id
  /\ \A f \in OptionalInForm : IsSome(form[f]) => r[f] = Unwrap(form[f])
  /\ \A f \in NullableColumns : IsSome(form[f]) => r[f] = form[f]

StoredAtStart(addr, kind) == addr \in hist.known0 /\ addr[2] = kind

\* The author and some community of the audience, from which the author is
\* not banned, were stored locally when the call started.
AuthorAndCommunityLocal(me) ==
  /\ StoredAtStart(me.page.attributed_to, "u")
  /\ \E i \in DOMAIN me.page.to :
       /\ StoredAtStart(me.page.to[i], "c")
       /\ <<me.page.attributed_to, me.page.to[i]>> \notin Banned

\* The author and the first entry of the audience, a community, were stored
\* locally when the call started.
AuthorAndFirstEntryLocal(me) ==
  /\ StoredAtStart(me.page.attributed_to, "u")
  /\ me.page.to # << >>
  /\ StoredAtStart(me.page.to[1], "c")

\* The value a flag column has after the upsert of a form that carries the
\* flag as an Option: the form's, or else the stored one, or else the default.
FlagAfter(me, flag, column) ==
  IF IsSome(flag) THEN Unwrap(flag)
  ELSE IF IsSome(RowBefore(me)) THEN Unwrap(RowBefore(me))[column]
  ELSE FALSE

ResolvedEntry(addr) == dereference_local(addr, "c", known)

\* What the scan of extract_community has established at each point.
ScanState ==
  \A c \in CallIds :
    LET me == calls[c]
        to == me.page.to
    IN  /\ me.to_idx \in 1..(Len(to) + 1)
        /\ me.pc = "f_community" => me.community = None
        /\ IsSome(me.community)
             => /\ me.to_idx \in DOMAIN to
                /\ me.community = Some(to[me.to_idx])
                /\ ResolvedEntry(to[me.to_idx])
                /\ \A j \in 1..(me.to_idx - 1) : ~ResolvedEntry(to[j])
        /\ (Done(me) /\ IsSome(me.creator) /\ me.community = None)
             => /\ me.result = "NoCommunityInAudience"
                /\ me.to_idx = Len(to) + 1
                /\ \A j \in DOMAIN to : ~ResolvedEntry(to[j])
        /\ (me.result = "NoCommunityInAudience") => me.community = None

\* One iteration of the loop: past the end it fails; otherwise it either
\* leaves the loop with the entry at to_idx, or skips that entry and moves
\* on by one, so the scan of a list of n entries ends within n + 1 steps.
ScanStep ==
  \A c \in CallIds :
    LET me == calls[c]
        to == me.page.to
    IN  (me.pc = "f_community" /\ calls'[c] # me)
          => IF me.to_idx > Len(to)
             THEN /\ calls'[c].pc = "done"
                  /\ calls'[c].result = "NoCommunityInAudience"
                  /\ known' = known
             ELSE \/ /\ calls'[c].pc = "f_community"
                     /\ calls'[c].to_idx = me.to_idx + 1
                     /\ calls'[c].community = None
                     /\ to[me.to_idx] \notin known' \/ to[me.to_idx][2] # "c"
                  \/ /\ calls'[c].pc = "f_member"
                     /\ calls'[c].to_idx = me.to_idx
                     /\ calls'[c].community = Some(to[me.to_idx])
                     /\ to[me.to_idx] \in known'

\* C17: extract_community scans the audience from first to last, returns
\* the community of the lowest-index entry whose dereference succeeds
\* without trying a later entry, skips the entries whose dereference fails
\* without reporting them, fails with NoCommunityInAudience exactly when no
\* entry resolves (the empty list included), and ends after at most one
\* step per entry and one more.
C17_CommunityResolution == []ScanState /\ [][ScanStep]_vars

C17_Witness ==
  \E c \in CallIds :
    /\ Done(calls[c]) /\ calls[c].result = "ok"
    /\ calls[c].to_idx = 2
    /\ calls[c].page.to[1] \in RemoteObjects
    /\ calls[c].page.to[1] \notin known
    /\ calls[c].community = Some(calls[c].page.to[2])
    /\ calls[c].fetches > 0

(***************************************************************************)
(* Properties of SpecModAction.                                            *)
(***************************************************************************)
ModerationFields == {"stickied", "locked"}

\* The call was let past the address check as a moderator action although
\* the Page's id does not match expected_domain.
AcceptedByRelaxation(me) == me.is_mod /\ AddressMismatch(me)

\* C18: whenever from_apub accepts a Page through the moderator-action
\* relaxation, the upsert changes only the stickied and locked fields of
\* the stored post; title, body, url, creator, community, nsfw and the
\* timestamps of the stored row stay as they were.
C18_ModActionTouchesOnlyFlags ==
  \A c \in CallIds :
    (Done(calls[c]) /\ calls[c].result = "ok" /\ AcceptedByRelaxation(calls[c]))
      => \A f \in (DOMAIN StoredRow(calls[c])) \ ModerationFields :
           StoredRow(calls[c])[f] = Unwrap(RowBefore(calls[c]))[f]

(***************************************************************************)
(* Properties of SpecRace.                                                 *)
(***************************************************************************)
\* The step is the upsert of call c.
UpsertsNow(c) ==
  /\ calls[c].pc = "f_upsert"
  /\ calls'[c].pc = "done"
  /\ calls'[c].result = "ok"

\* C19: in every interleaving of the from_apub calls for one address,
\* whenever a call upserts a Page whose id does not match its
\* expected_domain, the row stored for the address immediately before the
\* upsert has stickied or locked differing from the Page's stickied or NOT
\* comments_enabled: the classification read in is_mod_action still holds
\* when the row is written.
C19_ClassificationFreshAtWrite ==
  [][\A c \in CallIds :
       (UpsertsNow(c) /\ AddressMismatch(calls[c]))
         => is_mod_action(calls[c].page, posts)]_vars

(***************************************************************************)
(* Properties of SpecDeleted.                                              *)
(***************************************************************************)
\* C20: a step of delete or from_apub keeps every row, under its id and
\* its address; it leaves removed as it was, and deleted = true once
\* ApubPost::delete has set it: the form of from_apub carries no value for
\* removed and deleted.
C20_DeletionStateKept ==
  [][\A r \in posts :
       \E r2 \in posts' :
         /\ r2.id = r.id
         /\ r2.ap_id = r.ap_id
         /\ r2.removed = r.removed
         /\ r.deleted => r2.deleted]_vars

C20_Witness ==
  \E c \in CallIds :
    /\ Done(calls[c]) /\ calls[c].result = "ok"
    /\ IsSome(RowBefore(calls[c]))
    /\ Unwrap(RowBefore(calls[c])).deleted
    /\ Unwrap(RowBefore(calls[c])).removed
    /\ ~Unwrap(RowBefore(calls[c])).stickied
    /\ StoredRow(calls[c]).stickied
    /\ StoredRow(calls[c]).deleted
    /\ StoredRow(calls[c]).removed

(***************************************************************************)
(* Properties of SpecOutbound.                                             *)
(***************************************************************************)
\* The Page to_apub made of the post has the fields the post determines.
PageOfPost(pg, P) ==
  /\ pg.id = P.ap_id
  /\ pg.to = <<P.community_id, Public>>
  /\ pg.attributed_to = P.creator_id
  /\ pg.comments_enabled = Some(~P.locked)
  /\ pg.stickied = Some(P.stickied)
  /\ pg.sensitive = Some(P.nsfw)
  /\ verify_is_public(pg.to)

\* A step that runs to_apub leaves the store, the locally stored actors,
\* the metadata source and every call (with its request counter) alone.
ToApubFrame ==
  hist' # hist
    => /\ posts' = posts /\ known' = known /\ site' = site /\ calls' = calls
       /\ hist'.post \in {Some(p) : p \in posts}

ToApubResult ==
  /\ hist.n = 1 => PageOfPost(Unwrap(hist.page), Unwrap(hist.post))
  /\ \A c \in CallIds :
       (Receive(calls[c]) /\ Done(calls[c])) => calls[c].result # "NotPublic"

\* C15: to_apub performs no remote fetch, consumes no request budget and
\* writes nothing to the store; the Page it produces has audience exactly
\* [community address, public marker], attribution equal to the creator's
\* address, comments_enabled = NOT locked and stickied and sensitive equal
\* to the stored flags, and it passes the audience check of Page::verify.
C15_ToApubPureAndPublic == []ToApubResult /\ [][ToApubFrame]_vars

C15_Witness ==
  /\ hist.n = 1
  /\ Unwrap(hist.post).locked /\ Unwrap(hist.post).stickied /\ Unwrap(hist.post).nsfw
  /\ Unwrap(hist.page).comments_enabled = Some(FALSE)
  /\ \E c \in CallIds :
       /\ Receive(calls[c]) /\ Done(calls[c]) /\ calls[c].result = "ok"
       /\ calls[c].page = Unwrap(hist.page)

=============================================================================
